---- MODULE Spec2Model ----
(***************************************************************************)
(* Allez Middleman: the Socket.IO relay between the Laravel backend and    *)
(* rider/driver clients.  Two servers live in the repository: the modular  *)
(* server (server.js + middleware/auth.js + handlers/socketHandler.js +    *)
(* controllers/tripController.js), specified by Spec (its socket commands  *)
(* with the routes they interact with) and by SpecIngest (all ten ingestion *)
(* routes), and the stand-alone Elastic Beanstalk entry point app.js,      *)
(* specified by SpecLegacy.  SpecHistory is the modular server with one    *)
(* connection and three routes, started with the history variable `prev`   *)
(* switched on, for properties that relate two consecutive steps.          *)
(*                                                                         *)
(* State is Socket.IO's room membership plus the fields the code attaches  *)
(* to each socket.  `last` is the operation handled by the latest step and *)
(* `out` the messages that step emitted to each socket, in emit order;     *)
(* `prev` holds `last`, `rooms` and `out` as they were before that step.   *)
(***************************************************************************)
EXTENDS Integers, Sequences, FiniteSets, TLC

\* Longest nearby_drivers / remaining_drivers list a request carries.
MaxDrivers == 1

\* Socket handles, allocated in order of connection.
Sockets == {1, 2}

(***************************************************************************)
(* JavaScript values.  Ids are strings; Undefined stands for a property    *)
(* that is absent from the payload.                                        *)
(***************************************************************************)
Undefined == "<undefined>"

\* !v  for the values used here (undefined and the empty string are falsy)
Falsy(v) == v \in {Undefined, ""}

\* a || b
OrElse(a, b) == IF Falsy(a) THEN b ELSE a

\* `${v}` inside a template literal
Tpl(v) == IF v = Undefined THEN "undefined" ELSE v

\* An array-valued property: absent, or a sequence of ids ([] is truthy).
NoArray == [present |-> FALSE, items |-> <<>>]
Arr(items) == [present |-> TRUE, items |-> items]

(***************************************************************************)
(* Room names, built by string interpolation exactly as the code does.     *)
(***************************************************************************)
UserRoom(id) == "user_" \o Tpl(id)
TripRoom(id) == "trip_" \o Tpl(id)
TrackRoom(id) == "track_driver_" \o Tpl(id)
PoolRoom == "available_drivers"
MonitoringRoom == "emergency_monitoring"

(***************************************************************************)
(* Input universes.                                                        *)
(***************************************************************************)
UserIds == {"r1", "d1"}
TripIds == {"T"}

\* Bearer credentials a client may present.  Each is an opaque string; what
\* jsonwebtoken makes of it is given by JwtSignedWith/JwtExpired/JwtClaims.
JwtStrings == {"jwt.rider", "jwt.driver", "jwt.norole", "jwt.bare", "jwt.forged", "jwt.expired"}

JwtSignedWith(t) == IF t = "jwt.forged" THEN "other-secret" ELSE "secret"
JwtExpired(t) == t = "jwt.expired"
JwtClaims(t) ==
  CASE t = "jwt.rider"   -> [user_id |-> "r1", id |-> Undefined, user_type |-> "rider", email |-> "r1@x"]
    [] t = "jwt.driver"  -> [user_id |-> Undefined, id |-> "d1", user_type |-> "driver", email |-> Undefined]
    [] t = "jwt.norole"  -> [user_id |-> "r1", id |-> Undefined, user_type |-> Undefined, email |-> Undefined]
    [] t = "jwt.bare"    -> [user_id |-> Undefined, id |-> Undefined, user_type |-> Undefined, email |-> Undefined]
    [] t = "jwt.forged"  -> [user_id |-> "d1", id |-> Undefined, user_type |-> "driver", email |-> Undefined]
    [] t = "jwt.expired" -> [user_id |-> "r1", id |-> Undefined, user_type |-> "rider", email |-> Undefined]

\* jwt.verify(token, secret, cb): err unless signed with secret and not expired
JwtVerify(t, secret) ==
  IF t \in JwtStrings /\ JwtSignedWith(t) = secret /\ ~JwtExpired(t)
    THEN [err |-> FALSE, decoded |-> JwtClaims(t)]
    ELSE [err |-> TRUE, decoded |-> JwtClaims("jwt.bare")]

\* authorization?.replace('Bearer ', '')
StripBearer(h) ==
  IF h = Undefined THEN Undefined
  ELSE IF \E t \in JwtStrings : h = "Bearer " \o t
    THEN CHOOSE t \in JwtStrings : h = "Bearer " \o t
    ELSE h

Handshakes ==
  [auth : {Undefined} \cup JwtStrings,
   authorization : {Undefined} \cup {"Bearer " \o t : t \in {"jwt.rider", "jwt.forged"}}]

(***************************************************************************)
(* Messages.  Every message is a record of the same shape; fields a given  *)
(* event does not carry are Undefined.                                     *)
(***************************************************************************)
Msg(ev, trip, driver, rider, text) ==
  [ev |-> ev, trip_id |-> trip, driver_id |-> driver, rider_id |-> rider, message |-> text]

NoOut == [t \in Sockets |-> <<>>]

\* Marks a socket whose handshake carried no credential that verifies.
NoVerifiedToken == "<no-token>"

\* socket.emit(ev, data)
SockEmit(o, s, m) == [o EXCEPT ![s] = Append(@, m)]

\* io.to(room).emit(ev, data): every socket currently in the room gets it once
RoomEmit(o, rms, room, m) ==
  [t \in Sockets |-> IF room \in rms[t] THEN Append(o[t], m) ELSE o[t]]

VARIABLES
  jwtSecret,      \* process.env.JWT_SECRET
  laravelApiKey,  \* process.env.LARAVEL_API_KEY
  sockStatus,     \* socket -> "new" | "rejected" | "connected" | "closed"
  tokenId,        \* socket -> the id claim of its verified handshake token, if any
  userId,         \* socket.userId
  userType,       \* socket.userType
  rooms,          \* socket -> set of room names the socket is in
  last,           \* the operation handled by the latest step
  out,            \* socket -> messages the latest step emitted to it
  prev            \* history: last, rooms and out as they were before the latest step

vars == <<jwtSecret, laravelApiKey, sockStatus, tokenId, userId,
          userType, rooms, last, out, prev>>

env == <<jwtSecret, laravelApiKey>>

\* The body of an HTTP request or the data of a socket command.  x1 and x2
\* are the kind-specific required fields (pickup_location, reason, ...).
Req(trip, driver, rider, list, x1, x2) ==
  [trip_id |-> trip, driver_id |-> driver, rider_id |-> rider,
   drivers |-> list, x1 |-> x1, x2 |-> x2]

NoReq == Req(Undefined, Undefined, Undefined, NoArray, Undefined, Undefined)

\* What the latest step handled: the handler, the socket (0 for HTTP), the
\* presented X-API-Key and HTTP status (HTTP only), and the request.
\* steps lists, for a request to the modular server, what its handler did in
\* the order it did it.
Op(name, s, key, status, req) ==
  [op |-> name, sock |-> s, key |-> key, status |-> status, req |-> req, steps |-> <<>>]

SockOp(name, s, req) == Op(name, s, Undefined, 0, req)

\* The deployments considered: every secret set, or none of them.
Deployments ==
  {[JWT_SECRET |-> "secret", LARAVEL_API_KEY |-> "key"],
   [JWT_SECRET |-> Undefined, LARAVEL_API_KEY |-> Undefined]}

Init ==
  /\ \E e \in Deployments : jwtSecret = e.JWT_SECRET /\ laravelApiKey = e.LARAVEL_API_KEY
  /\ sockStatus = [s \in Sockets |-> "new"]
  /\ tokenId = [s \in Sockets |-> NoVerifiedToken]
  /\ userId = [s \in Sockets |-> Undefined]
  /\ userType = [s \in Sockets |-> Undefined]
  /\ rooms = [s \in Sockets |-> {}]
  /\ last = SockOp("init", 0, NoReq)
  /\ out = NoOut
  /\ prev = [on |-> FALSE, last |-> SockOp("init", 0, NoReq),
             rooms |-> [s \in Sockets |-> {}], out |-> NoOut]

\* The history variable is kept only in behaviours that start with it switched
\* on (InitHistory); elsewhere it stays as Init leaves it.
Remember ==
  prev' = IF prev.on THEN [on |-> TRUE, last |-> last, rooms |-> rooms, out |-> out] ELSE prev

\* Socket handles are handed out in order: s connects after s-1 has.
NextHandle(s) ==
  /\ sockStatus[s] = "new"
  /\ IF s = 1 THEN TRUE ELSE sockStatus[s - 1] # "new"

Connected(s) == sockStatus[s] = "connected"

(***************************************************************************)
(* middleware/auth.js: validateSocketAuth                                  *)
(***************************************************************************)
validateSocketAuth_defaultDriver(hs, secret) ==
  LET token == OrElse(hs.auth, StripBearer(hs.authorization))
      v == JwtVerify(token, secret)
      fail(text) == [ok |-> FALSE, error |-> text, userId |-> Undefined, userType |-> Undefined]
  IN  IF Falsy(token) THEN fail("Authentication token required")
      ELSE IF Falsy(secret) THEN fail("Server configuration error")
      ELSE IF v.err THEN fail("Invalid token")
      ELSE [ok |-> TRUE, error |-> Undefined,
            userId |-> OrElse(v.decoded.user_id, v.decoded.id),
            userType |-> OrElse(v.decoded.user_type, "driver")]
validateSocketAuth(hs, secret) ==
  LET token == OrElse(hs.auth, StripBearer(hs.authorization))
      v == JwtVerify(token, secret)
      fail(text) == [ok |-> FALSE, error |-> text, userId |-> Undefined, userType |-> Undefined]
  IN  IF Falsy(token) THEN fail("Authentication token required")
      ELSE IF Falsy(secret) THEN fail("Server configuration error")
      ELSE IF v.err THEN fail("Invalid token")
      ELSE [ok |-> TRUE, error |-> Undefined,
            userId |-> OrElse(v.decoded.user_id, v.decoded.id),
            userType |-> OrElse(v.decoded.user_type, "rider")]

\* What the handshake credential establishes: the id claim of a token that
\* verifies, NoVerifiedToken for a missing or rejected one.
TokenIdentity(a) == IF a.ok THEN a.userId ELSE NoVerifiedToken

(***************************************************************************)
(* handlers/socketHandler.js                                               *)
(***************************************************************************)
\* handleConnection: the rooms a freshly authenticated socket is put in
handleConnectionRooms_poolOnly(uid, utype) == IF utype = "driver" THEN {PoolRoom} ELSE {}
handleConnectionRooms(uid, utype) ==
  {UserRoom(uid)} \cup (IF utype = "driver" THEN {PoolRoom} ELSE {})

\* server.js: io.use(validateSocketAuth); io.on('connection', handleConnection)
Connect(s) ==
  /\ NextHandle(s)
  /\ \E hs \in Handshakes :
       LET a == validateSocketAuth(hs, jwtSecret) IN
       /\ tokenId' = [tokenId EXCEPT ![s] = TokenIdentity(a)]
       /\ IF a.ok
            THEN /\ sockStatus' = [sockStatus EXCEPT ![s] = "connected"]
                 /\ userId' = [userId EXCEPT ![s] = a.userId]
                 /\ userType' = [userType EXCEPT ![s] = a.userType]
                 /\ rooms' = [rooms EXCEPT ![s] = handleConnectionRooms(a.userId, a.userType)]
                 /\ out' = SockEmit(NoOut, s, Msg("connected", Undefined, Undefined, Undefined, Undefined))
                 /\ Remember
                 /\ last' = SockOp("connect", s, NoReq)
            ELSE /\ sockStatus' = [sockStatus EXCEPT ![s] = "rejected"]
                 /\ out' = SockEmit(NoOut, s, Msg("connect_error", Undefined, Undefined, Undefined, a.error))
                 /\ Remember
                 /\ last' = SockOp("connect_error", s, NoReq)
                 /\ UNCHANGED <<userId, userType, rooms>>
  /\ UNCHANGED env

\* socket.join(room) / socket.leave(room) on the socket's set of rooms
JoinRoom_toggle(rs, room) == IF room \in rs THEN rs \ {room} ELSE rs \cup {room}
JoinRoom(rs, room) == rs \cup {room}

LeaveRoom_all(rs, room) == {}
LeaveRoom(rs, room) == rs \ {room}

\* A socket command that only answers the sender.
Reply_replay(s, name, req, m) ==
  /\ out' = SockEmit(out, s, m)
  /\ Remember
  /\ last' = SockOp(name, s, req)
Reply(s, name, req, m) ==
  /\ out' = SockEmit(NoOut, s, m)
  /\ Remember
  /\ last' = SockOp(name, s, req)

ErrorMsg(text) == Msg("error", Undefined, Undefined, Undefined, text)

\* socket.on('subscribe_trip')
handleTripSubscription_byIdentity(s) ==
  /\ Connected(s)
  /\ \E trip_id \in TripIds \cup {Undefined} :
       LET req == Req(trip_id, Undefined, Undefined, NoArray, Undefined, Undefined) IN
       IF Falsy(trip_id)
         THEN /\ Reply(s, "subscribe_trip", req, ErrorMsg("trip_id is required for subscription"))
              /\ UNCHANGED rooms
         ELSE /\ rooms' = [t \in Sockets |->
                             IF Connected(t) /\ userId[t] = userId[s]
                               THEN JoinRoom(rooms[t], TripRoom(trip_id)) ELSE rooms[t]]
              /\ Reply(s, "subscribe_trip", req, Msg("trip_subscribed", trip_id, Undefined, Undefined, Undefined))
  /\ UNCHANGED <<env, sockStatus, tokenId, userId, userType>>
handleTripSubscription(s) ==
  /\ Connected(s)
  /\ \E trip_id \in TripIds \cup {Undefined} :
       LET req == Req(trip_id, Undefined, Undefined, NoArray, Undefined, Undefined) IN
       IF Falsy(trip_id)
         THEN /\ Reply(s, "subscribe_trip", req, ErrorMsg("trip_id is required for subscription"))
              /\ UNCHANGED rooms
         ELSE /\ rooms' = [rooms EXCEPT ![s] = JoinRoom(@, TripRoom(trip_id))]
              /\ Reply(s, "subscribe_trip", req, Msg("trip_subscribed", trip_id, Undefined, Undefined, Undefined))
  /\ UNCHANGED <<env, sockStatus, tokenId, userId, userType>>

\* socket.on('unsubscribe_trip')
handleTripUnsubscription(s) ==
  /\ Connected(s)
  /\ \E trip_id \in TripIds \cup {Undefined} :
       LET req == Req(trip_id, Undefined, Undefined, NoArray, Undefined, Undefined) IN
       IF Falsy(trip_id)
         THEN /\ Reply(s, "unsubscribe_trip", req, ErrorMsg("trip_id is required for unsubscription"))
              /\ UNCHANGED rooms
         ELSE /\ rooms' = [rooms EXCEPT ![s] = LeaveRoom(@, TripRoom(trip_id))]
              /\ Reply(s, "unsubscribe_trip", req, Msg("trip_unsubscribed", trip_id, Undefined, Undefined, Undefined))
  /\ UNCHANGED <<env, sockStatus, tokenId, userId, userType>>

\* The role check at the top of the driver-only handlers.
IsDriver_anyRole(s) == TRUE
IsDriver(s) == userType[s] = "driver"

\* socket.on('toggle_availability'); is_available is "true", "false" or absent
handleDriverAvailability_flip(s) ==
  /\ Connected(s)
  /\ \E is_available \in {"true", "false", Undefined} :
       LET req == Req(Undefined, Undefined, Undefined, NoArray, is_available, Undefined) IN
       IF ~IsDriver(s)
         THEN /\ Reply(s, "toggle_availability", req, ErrorMsg("Only drivers can toggle availability"))
              /\ UNCHANGED rooms
         ELSE /\ rooms' = [rooms EXCEPT ![s] =
                    IF PoolRoom \in @ THEN LeaveRoom(@, PoolRoom) ELSE JoinRoom(@, PoolRoom)]
              /\ Reply(s, "toggle_availability", req,
                       Msg("availability_updated", Undefined, Undefined, Undefined, is_available))
  /\ UNCHANGED <<env, sockStatus, tokenId, userId, userType>>
handleDriverAvailability(s) ==
  /\ Connected(s)
  /\ \E is_available \in {"true", "false", Undefined} :
       LET req == Req(Undefined, Undefined, Undefined, NoArray, is_available, Undefined) IN
       IF ~IsDriver(s)
         THEN /\ Reply(s, "toggle_availability", req, ErrorMsg("Only drivers can toggle availability"))
              /\ UNCHANGED rooms
         ELSE /\ rooms' = [rooms EXCEPT ![s] =
                    IF is_available = "true" THEN JoinRoom(@, PoolRoom) ELSE LeaveRoom(@, PoolRoom)]
              /\ Reply(s, "toggle_availability", req,
                       Msg("availability_updated", Undefined, Undefined, Undefined, is_available))
  /\ UNCHANGED <<env, sockStatus, tokenId, userId, userType>>

\* socket.on('track_driver')
handleDriverTracking_unchecked(s) ==
  /\ Connected(s)
  /\ \E driver_id \in {"d1", Undefined} :
       LET req == Req(Undefined, driver_id, Undefined, NoArray, Undefined, Undefined) IN
       /\ rooms' = [rooms EXCEPT ![s] = JoinRoom(@, TrackRoom(driver_id))]
       /\ Reply(s, "track_driver", req, Msg("driver_tracking_started", Undefined, driver_id, Undefined, Undefined))
  /\ UNCHANGED <<env, sockStatus, tokenId, userId, userType>>
handleDriverTracking(s) ==
  /\ Connected(s)
  /\ \E driver_id \in {"d1", Undefined} :
       LET req == Req(Undefined, driver_id, Undefined, NoArray, Undefined, Undefined) IN
       IF Falsy(driver_id)
         THEN /\ Reply(s, "track_driver", req, ErrorMsg("driver_id is required for tracking"))
              /\ UNCHANGED rooms
         ELSE /\ rooms' = [rooms EXCEPT ![s] = JoinRoom(@, TrackRoom(driver_id))]
              /\ Reply(s, "track_driver", req, Msg("driver_tracking_started", Undefined, driver_id, Undefined, Undefined))
  /\ UNCHANGED <<env, sockStatus, tokenId, userId, userType>>

\* The rooms handleTripAcceptance broadcasts 'trip_accepted' to.
AcceptanceRooms(trip_id) == <<TripRoom(trip_id)>>

\* Emit m to each room of the sequence in turn (one io.to(room).emit each).
RECURSIVE EmitAll(_, _, _, _)
EmitAll(o, rms, roomSeq, m) ==
  IF roomSeq = <<>> THEN o
  ELSE EmitAll(RoomEmit(o, rms, Head(roomSeq), m), rms, Tail(roomSeq), m)

\* acceptanceData.driver_id: socket.userId; a driver_id in the payload is not
\* among the fields the handler destructures.
AcceptanceDriver_fromPayload(s, payloadDriver) == OrElse(payloadDriver, userId[s])
AcceptanceDriver(s, payloadDriver) == userId[s]

\* socket.on('accept_trip'); the payload may name a driver_id of the client's
\* choosing (drawn here for payloads that pass the role and trip_id checks).
handleTripAcceptance_joinsTrip(s) ==
  /\ Connected(s)
  /\ \E trip_id \in TripIds \cup {Undefined}, driver_id \in {Undefined, "r1"} :
       LET req == Req(trip_id, driver_id, Undefined, NoArray, Undefined, Undefined)
           acceptanceData == Msg("trip_accepted", trip_id, AcceptanceDriver(s, driver_id),
                                 Undefined, Undefined)
       IN
       /\ Falsy(driver_id) \/ (IsDriver(s) /\ ~Falsy(trip_id))
       /\ IF ~IsDriver(s)
            THEN Reply(s, "accept_trip", req, ErrorMsg("Only drivers can accept trips"))
                 /\ UNCHANGED rooms
            ELSE IF Falsy(trip_id)
              THEN Reply(s, "accept_trip", req, ErrorMsg("trip_id is required"))
                   /\ UNCHANGED rooms
              ELSE /\ out' = SockEmit(EmitAll(NoOut, rooms, AcceptanceRooms(trip_id), acceptanceData), s,
                                      [acceptanceData EXCEPT !.ev = "trip_acceptance_confirmed"])
                   /\ rooms' = [rooms EXCEPT ![s] = JoinRoom(@, TripRoom(trip_id))]
                   /\ Remember
                   /\ last' = SockOp("accept_trip", s, req)
  /\ UNCHANGED <<env, sockStatus, tokenId, userId, userType>>
handleTripAcceptance(s) ==
  /\ Connected(s)
  /\ \E trip_id \in TripIds \cup {Undefined}, driver_id \in {Undefined, "r1"} :
       LET req == Req(trip_id, driver_id, Undefined, NoArray, Undefined, Undefined)
           acceptanceData == Msg("trip_accepted", trip_id, AcceptanceDriver(s, driver_id),
                                 Undefined, Undefined)
       IN
       /\ Falsy(driver_id) \/ (IsDriver(s) /\ ~Falsy(trip_id))
       /\ IF ~IsDriver(s)
            THEN Reply(s, "accept_trip", req, ErrorMsg("Only drivers can accept trips"))
            ELSE IF Falsy(trip_id)
              THEN Reply(s, "accept_trip", req, ErrorMsg("trip_id is required"))
              ELSE /\ out' = SockEmit(EmitAll(NoOut, rooms, AcceptanceRooms(trip_id), acceptanceData), s,
                                      [acceptanceData EXCEPT !.ev = "trip_acceptance_confirmed"])
                   /\ Remember
                   /\ last' = SockOp("accept_trip", s, req)
  /\ UNCHANGED <<env, sockStatus, tokenId, userId, userType, rooms>>

\* socket.on('reject_trip')
handleTripRejection_notifiesTrip(s) ==
  /\ Connected(s)
  /\ \E trip_id \in TripIds \cup {Undefined} :
       LET req == Req(trip_id, Undefined, Undefined, NoArray, Undefined, Undefined)
           rejectionData == Msg("trip_rejection_confirmed", trip_id, userId[s], Undefined,
                                "No reason provided")
       IN
       IF ~IsDriver(s)
         THEN Reply(s, "reject_trip", req, ErrorMsg("Only drivers can reject trips"))
         ELSE IF Falsy(trip_id)
           THEN Reply(s, "reject_trip", req, ErrorMsg("trip_id is required"))
           ELSE /\ out' = SockEmit(RoomEmit(NoOut, rooms, TripRoom(trip_id),
                                            [rejectionData EXCEPT !.ev = "trip_rejected"]),
                                   s, rejectionData)
                /\ Remember
                /\ last' = SockOp("reject_trip", s, req)
  /\ UNCHANGED <<env, sockStatus, tokenId, userId, userType, rooms>>
handleTripRejection(s) ==
  /\ Connected(s)
  /\ \E trip_id \in TripIds \cup {Undefined} :
       LET req == Req(trip_id, Undefined, Undefined, NoArray, Undefined, Undefined) IN
       IF ~IsDriver(s)
         THEN Reply(s, "reject_trip", req, ErrorMsg("Only drivers can reject trips"))
         ELSE IF Falsy(trip_id)
           THEN Reply(s, "reject_trip", req, ErrorMsg("trip_id is required"))
           ELSE Reply(s, "reject_trip", req,
                      Msg("trip_rejection_confirmed", trip_id, userId[s], Undefined, "No reason provided"))
  /\ UNCHANGED <<env, sockStatus, tokenId, userId, userType, rooms>>

\* socket.on('ping') (both servers answer 'pong')
Ping(s) ==
  /\ Connected(s)
  /\ Reply(s, "ping", NoReq, Msg("pong", Undefined, Undefined, Undefined, Undefined))
  /\ UNCHANGED <<env, sockStatus, tokenId, userId, userType, rooms>>

\* The rooms a socket is left in once Socket.IO has closed it.
RoomsAfterDisconnect_kept(rms) == rms
RoomsAfterDisconnect(rms) == {}

\* socket.on('disconnect'): handleDisconnection only logs; Socket.IO itself
\* takes the closed socket out of every room.
handleDisconnection(s) ==
  /\ Connected(s)
  /\ sockStatus' = [sockStatus EXCEPT ![s] = "closed"]
  /\ rooms' = [rooms EXCEPT ![s] = RoomsAfterDisconnect(@)]
  /\ out' = NoOut
  /\ Remember
  /\ last' = SockOp("disconnect", s, NoReq)
  /\ UNCHANGED <<env, tokenId, userId, userType>>

(***************************************************************************)
(* HTTP ingestion, modular server.                                         *)
(***************************************************************************)
HttpKeys == {Undefined, "key", "wrong"}

RECURSIVE SeqsUpTo(_, _)
SeqsUpTo(S, n) ==
  IF n = 0 THEN {<<>>}
  ELSE LET shorter == SeqsUpTo(S, n - 1)
       IN  shorter \cup {Append(q, x) : q \in shorter, x \in S}

DriverLists == {NoArray} \cup {Arr(q) : q \in SeqsUpTo(UserIds, MaxDrivers)}

\* middleware/auth.js validateBackendAuth: the status it answers with, or 0
\* when it calls next()
validateBackendAuth(apiKey, expectedApiKey) ==
  IF Falsy(apiKey) THEN 401
  ELSE IF Falsy(expectedApiKey) THEN 500
  ELSE IF apiKey # expectedApiKey THEN 401
  ELSE 0

\* The requests the model sends: with the right key every body in which at
\* most one required scalar field is missing, or all of them are; with a
\* missing or wrong key the complete body and the empty one.
Missing(fields) == Cardinality({i \in DOMAIN fields : Falsy(fields[i])})
Shape(key, fields, list) ==
  \/ Missing(fields) = 0
  \/ key = "key" /\ Missing(fields) = 1 /\ list \in {NoArray, Arr(<<"d1">>)}
  \/ Missing(fields) = Len(fields) /\ list = NoArray

\* What a handler does that is visible outside it: answer the request, or
\* call its broadcast function.
Respond(status) == [do |-> "respond", status |-> status]
Broadcast == [do |-> "broadcast", status |-> 0]

\* The middleware answers and stops, or calls next(); the controller returns
\* res.status(400) before anything else when a required field is missing,
\* and otherwise awaits its broadcast function and then calls res.json.
IngestSteps_respondFirst(auth, invalid) ==
  IF auth # 0 THEN <<Respond(auth)>>
  ELSE IF invalid THEN <<Respond(400)>>
  ELSE <<Respond(200), Broadcast>>
IngestSteps(auth, invalid) ==
  IF auth # 0 THEN <<Respond(auth)>>
  ELSE IF invalid THEN <<Respond(400)>>
  ELSE <<Broadcast, Respond(200)>>

\* The status of the answer among steps.
Answered(steps) == steps[CHOOSE i \in DOMAIN steps : steps[i].do = "respond"].status

HttpOp(name, key, steps, req) ==
  [Op(name, 0, key, Answered(steps), req) EXCEPT !.steps = steps]

\* One request through app.post(path, validateBackendAuth, controller):
\* invalid is the controller's required-field test, emits its broadcast.
Ingest_fieldsFirst(name, key, body, invalid, emits) ==
  LET auth == validateBackendAuth(key, laravelApiKey)
      steps == IngestSteps(IF invalid THEN 400 ELSE auth, FALSE)
  IN  /\ out' = IF \E i \in DOMAIN steps : steps[i] = Broadcast THEN emits ELSE NoOut
      /\ Remember
      /\ last' = HttpOp(name, key, steps, body)
      /\ UNCHANGED <<env, sockStatus, tokenId, userId, userType, rooms>>
Ingest(name, key, body, invalid, emits) ==
  LET auth == validateBackendAuth(key, laravelApiKey)
      steps == IngestSteps(auth, invalid)
  IN  /\ out' = IF \E i \in DOMAIN steps : steps[i] = Broadcast THEN emits ELSE NoOut
      /\ Remember
      /\ last' = HttpOp(name, key, steps, body)
      /\ UNCHANGED <<env, sockStatus, tokenId, userId, userType, rooms>>

UserRooms(items) == [i \in DOMAIN items |-> UserRoom(items[i])]

\* The rooms broadcastTripToDrivers emits 'new_trip_request' to, in order.
TripRequestRooms_withRider(d) ==
  <<UserRoom(d.rider_id)>> \o
  (IF d.drivers.present /\ Len(d.drivers.items) > 0 THEN UserRooms(d.drivers.items) ELSE <<>>)
    \o <<PoolRoom>>
TripRequestRooms(d) ==
  (IF d.drivers.present /\ Len(d.drivers.items) > 0 THEN UserRooms(d.drivers.items) ELSE <<>>)
    \o <<PoolRoom>>

broadcastTripToDrivers(rms, d) ==
  LET requestData == Msg("new_trip_request", d.trip_id, Undefined, d.rider_id, Undefined)
      toRider == RoomEmit(NoOut, rms, UserRoom(d.rider_id),
                          [requestData EXCEPT !.ev = "trip_sent_to_drivers"])
  IN  EmitAll(toRider, rms, TripRequestRooms(d), requestData)

\* POST /api/trip/send-to-drivers
sendTripToDrivers ==
  \E key \in HttpKeys, trip_id \in TripIds \cup {Undefined}, rider_id \in {"r1", Undefined},
     pickup_location \in {"pickup", Undefined}, nearby_drivers \in DriverLists :
    LET body == Req(trip_id, Undefined, rider_id, nearby_drivers, pickup_location, Undefined) IN
    /\ Shape(key, <<trip_id, rider_id, pickup_location>>, nearby_drivers)
    /\ key = "key" \/ nearby_drivers \in {NoArray, Arr(<<"d1">>)}
    /\ Ingest("sendTripToDrivers", key, body,
           Falsy(trip_id) \/ Falsy(rider_id) \/ Falsy(pickup_location) \/ ~nearby_drivers.present,
           broadcastTripToDrivers(rooms, body))

\* The rooms broadcastTripAcceptance emits 'trip_accepted' to, in order.
TripAcceptanceRooms_riderOnly(d) == <<UserRoom(d.rider_id)>>
TripAcceptanceRooms(d) == <<UserRoom(d.rider_id), TripRoom(d.trip_id)>>

broadcastTripAcceptance(rms, d) ==
  EmitAll(NoOut, rms, TripAcceptanceRooms(d),
          Msg("trip_accepted", d.trip_id, d.driver_id, d.rider_id, Undefined))

\* POST /api/trip/accepted
tripAccepted_needsRecipient ==
  \E key \in HttpKeys, trip_id \in TripIds \cup {Undefined}, driver_id \in {"d1", Undefined},
     rider_id \in {"r1", Undefined} :
    LET body == Req(trip_id, driver_id, rider_id, NoArray, Undefined, Undefined) IN
    /\ Shape(key, <<trip_id, driver_id, rider_id>>, NoArray)
    /\ Ingest("tripAccepted", key, body,
           \/ Falsy(trip_id) \/ Falsy(driver_id) \/ Falsy(rider_id)
           \/ \A s \in Sockets : UserRoom(rider_id) \notin rooms[s] /\ TripRoom(trip_id) \notin rooms[s],
           broadcastTripAcceptance(rooms, body))
tripAccepted ==
  \E key \in HttpKeys, trip_id \in TripIds \cup {Undefined}, driver_id \in {"d1", Undefined},
     rider_id \in {"r1", Undefined} :
    LET body == Req(trip_id, driver_id, rider_id, NoArray, Undefined, Undefined) IN
    /\ Shape(key, <<trip_id, driver_id, rider_id>>, NoArray)
    /\ Ingest("tripAccepted", key, body,
           Falsy(trip_id) \/ Falsy(driver_id) \/ Falsy(rider_id),
           broadcastTripAcceptance(rooms, body))

\* The rooms broadcastTripStart emits 'trip_started' to, in order.
TripStartRooms_partiesOnly(d) == <<UserRoom(d.rider_id), UserRoom(d.driver_id)>>
TripStartRooms(d) == <<UserRoom(d.rider_id), UserRoom(d.driver_id), TripRoom(d.trip_id)>>

broadcastTripStart_torn(rms, d) ==
  RoomEmit(EmitAll(NoOut, rms, <<UserRoom(d.rider_id), UserRoom(d.driver_id)>>,
                   Msg("trip_started", d.trip_id, d.driver_id, d.rider_id, Undefined)),
           [rms EXCEPT ![1] = {}], TripRoom(d.trip_id),
           Msg("trip_started", d.trip_id, d.driver_id, d.rider_id, Undefined))
broadcastTripStart(rms, d) ==
  EmitAll(NoOut, rms, TripStartRooms(d),
          Msg("trip_started", d.trip_id, d.driver_id, d.rider_id, Undefined))

\* POST /api/trip/started
tripStarted ==
  \E key \in HttpKeys, trip_id \in TripIds \cup {Undefined}, driver_id \in {"d1", Undefined},
     rider_id \in {"r1", Undefined} :
    LET body == Req(trip_id, driver_id, rider_id, NoArray, Undefined, Undefined) IN
    /\ Shape(key, <<trip_id, driver_id, rider_id>>, NoArray)
    /\ Ingest("tripStarted", key, body,
           Falsy(trip_id) \/ Falsy(driver_id) \/ Falsy(rider_id),
           broadcastTripStart(rooms, body))

\* Optional party ids travel with a complete, correctly keyed request in any
\* combination, and are both present otherwise.
Optional(key, fields, opts) == Missing(opts) = 0 \/ (key = "key" /\ Missing(fields) = 0)

\* The rooms broadcastTripUnavailable emits 'trip_no_longer_available' to.
TripUnavailableRooms_listOnly(remainingDrivers) ==
  IF remainingDrivers.present /\ Len(remainingDrivers.items) > 0
    THEN UserRooms(remainingDrivers.items) ELSE <<>>
TripUnavailableRooms(remainingDrivers) ==
  (IF remainingDrivers.present /\ Len(remainingDrivers.items) > 0
     THEN UserRooms(remainingDrivers.items) ELSE <<>>)
    \o <<PoolRoom>>

broadcastTripUnavailable(rms, d) ==
  EmitAll(NoOut, rms, TripUnavailableRooms(d.drivers),
          Msg("trip_no_longer_available", d.trip_id, Undefined, Undefined, d.x1))

\* POST /api/trip/no-longer-available; remaining_drivers is optional
tripNoLongerAvailable ==
  \E key \in HttpKeys, trip_id \in TripIds \cup {Undefined}, reason \in {"expired", Undefined},
     remaining_drivers \in DriverLists :
    LET body == Req(trip_id, Undefined, Undefined, remaining_drivers, reason, Undefined) IN
    /\ Shape(key, <<trip_id, reason>>, remaining_drivers)
    /\ key = "key" \/ remaining_drivers \in {NoArray, Arr(<<"d1">>)}
    /\ Ingest("tripNoLongerAvailable", key, body,
           Falsy(trip_id) \/ Falsy(reason),
           broadcastTripUnavailable(rooms, body))

\* drivers_notified in the 200 answers of the two list routes; it is computed
\* from the request body d alone.
\* sendTripToDrivers: nearby_drivers.length
NearbyDriversNotified(d) == Len(d.drivers.items)
\* tripNoLongerAvailable: remaining_drivers?.length || 0
RemainingDriversNotified(d) == IF d.drivers.present THEN Len(d.drivers.items) ELSE 0

\* The rooms broadcastDriverArrival emits 'driver_arrived' to, in order.
DriverArrivalRooms(d) == <<UserRoom(d.rider_id), TripRoom(d.trip_id)>>

broadcastDriverArrival(rms, d) ==
  EmitAll(NoOut, rms, DriverArrivalRooms(d),
          Msg("driver_arrived", d.trip_id, d.driver_id, d.rider_id, Undefined))

\* POST /api/trip/driver-arrived
driverArrived ==
  \E key \in HttpKeys, trip_id \in TripIds \cup {Undefined}, driver_id \in {"d1", Undefined},
     rider_id \in {"r1", Undefined} :
    LET body == Req(trip_id, driver_id, rider_id, NoArray, Undefined, Undefined) IN
    /\ Shape(key, <<trip_id, driver_id, rider_id>>, NoArray)
    /\ Ingest("driverArrived", key, body,
           Falsy(trip_id) \/ Falsy(driver_id) \/ Falsy(rider_id),
           broadcastDriverArrival(rooms, body))

\* The rooms broadcastTripCompletion emits 'trip_completed' to, in order.
TripCompletionRooms_noTrip(d) == <<UserRoom(d.rider_id), UserRoom(d.driver_id)>>
TripCompletionRooms(d) == <<UserRoom(d.rider_id), UserRoom(d.driver_id), TripRoom(d.trip_id)>>

broadcastTripCompletion(rms, d) ==
  EmitAll(NoOut, rms, TripCompletionRooms(d),
          Msg("trip_completed", d.trip_id, d.driver_id, d.rider_id, Undefined))

\* POST /api/trip/completed
tripCompleted ==
  \E key \in HttpKeys, trip_id \in TripIds \cup {Undefined}, driver_id \in {"d1", Undefined},
     rider_id \in {"r1", Undefined} :
    LET body == Req(trip_id, driver_id, rider_id, NoArray, Undefined, Undefined) IN
    /\ Shape(key, <<trip_id, driver_id, rider_id>>, NoArray)
    /\ Ingest("tripCompleted", key, body,
           Falsy(trip_id) \/ Falsy(driver_id) \/ Falsy(rider_id),
           broadcastTripCompletion(rooms, body))

\* if (rider_id) ...; if (driver_id) ...: the personal rooms of the parties
\* the payload names, rider first.
PartyRooms(d) ==
  (IF Falsy(d.rider_id) THEN <<>> ELSE <<UserRoom(d.rider_id)>>)
    \o (IF Falsy(d.driver_id) THEN <<>> ELSE <<UserRoom(d.driver_id)>>)

\* The rooms broadcastTripCancellation emits 'trip_cancelled' to, in order.
TripCancellationRooms_tripOnly(d) == <<TripRoom(d.trip_id)>>
TripCancellationRooms(d) == PartyRooms(d) \o <<TripRoom(d.trip_id)>>

broadcastTripCancellation(rms, d) ==
  EmitAll(NoOut, rms, TripCancellationRooms(d),
          Msg("trip_cancelled", d.trip_id, d.driver_id, d.rider_id, d.x1))

\* POST /api/trip/cancelled; driver_id and rider_id are optional
tripCancelled ==
  \E key \in HttpKeys, trip_id \in TripIds \cup {Undefined}, cancelled_by \in {"rider", Undefined},
     driver_id \in {"d1", Undefined}, rider_id \in {"r1", Undefined} :
    LET body == Req(trip_id, driver_id, rider_id, NoArray, cancelled_by, Undefined) IN
    /\ Shape(key, <<trip_id, cancelled_by>>, NoArray)
    /\ Optional(key, <<trip_id, cancelled_by>>, <<driver_id, rider_id>>)
    /\ Ingest("tripCancelled", key, body,
           Falsy(trip_id) \/ Falsy(cancelled_by),
           broadcastTripCancellation(rooms, body))

\* The rooms broadcastDriverLocation emits 'driver_location_update' to.
DriverLocationRooms_tripOnly(d) ==
  IF Falsy(d.trip_id) THEN <<>> ELSE <<TripRoom(d.trip_id)>>
DriverLocationRooms(d) ==
  (IF Falsy(d.trip_id) THEN <<>> ELSE <<TripRoom(d.trip_id)>>)
    \o <<TrackRoom(d.driver_id)>>

broadcastDriverLocation(rms, d) ==
  EmitAll(NoOut, rms, DriverLocationRooms(d),
          Msg("driver_location_update", d.trip_id, d.driver_id, Undefined, d.x1))

\* POST /api/driver/location-update; trip_id is optional.  The controller is
\* modelled as written; module.exports of tripController.js does not list it.
updateDriverLocation ==
  \E key \in HttpKeys, driver_id \in {"d1", Undefined}, location \in {"here", Undefined},
     trip_id \in TripIds \cup {Undefined} :
    LET body == Req(trip_id, driver_id, Undefined, NoArray, location, Undefined) IN
    /\ Shape(key, <<driver_id, location>>, NoArray)
    /\ Optional(key, <<driver_id, location>>, <<trip_id>>)
    /\ Ingest("updateDriverLocation", key, body,
           Falsy(driver_id) \/ Falsy(location),
           broadcastDriverLocation(rooms, body))

\* POST /api/driver/location: legacyUpdateDriverLocation puts current_trip_id
\* in locationData and no trip_id.  Of the two function declarations named
\* broadcastDriverLocation in tripController.js the later one is the binding,
\* and it reads trip_id.
legacyUpdateDriverLocation ==
  \E key \in HttpKeys, driver_id \in {"d1", Undefined}, location \in {"here", Undefined},
     current_trip_id \in TripIds \cup {Undefined} :
    LET body == Req(Undefined, driver_id, Undefined, NoArray, location, current_trip_id) IN
    /\ Shape(key, <<driver_id, location>>, NoArray)
    /\ Optional(key, <<driver_id, location>>, <<current_trip_id>>)
    /\ Ingest("legacyUpdateDriverLocation", key, body,
           Falsy(driver_id) \/ Falsy(location),
           broadcastDriverLocation(rooms, body))

\* The rooms broadcastPaymentUpdate emits 'payment_update' to, in order.
PaymentUpdateRooms(d) == PartyRooms(d) \o <<TripRoom(d.trip_id)>>

broadcastPaymentUpdate(rms, d) ==
  EmitAll(NoOut, rms, PaymentUpdateRooms(d),
          Msg("payment_update", d.trip_id, d.driver_id, d.rider_id, d.x1))

\* POST /api/payment/update; driver_id and rider_id are optional
paymentUpdate ==
  \E key \in HttpKeys, trip_id \in TripIds \cup {Undefined}, payment_status \in {"completed", Undefined},
     driver_id \in {"d1", Undefined}, rider_id \in {"r1", Undefined} :
    LET body == Req(trip_id, driver_id, rider_id, NoArray, payment_status, Undefined) IN
    /\ Shape(key, <<trip_id, payment_status>>, NoArray)
    /\ Optional(key, <<trip_id, payment_status>>, <<driver_id, rider_id>>)
    /\ Ingest("paymentUpdate", key, body,
           Falsy(trip_id) \/ Falsy(payment_status),
           broadcastPaymentUpdate(rooms, body))

\* The rooms broadcastEmergencyAlert emits 'emergency_alert' to, in order.
EmergencyAlertRooms_unconditional(d) ==
  <<UserRoom(d.rider_id), UserRoom(d.driver_id), TripRoom(d.trip_id), MonitoringRoom>>
EmergencyAlertRooms(d) == PartyRooms(d) \o <<TripRoom(d.trip_id), MonitoringRoom>>

broadcastEmergencyAlert(rms, d) ==
  EmitAll(NoOut, rms, EmergencyAlertRooms(d),
          Msg("emergency_alert", d.trip_id, d.driver_id, d.rider_id, d.x1))

\* POST /api/emergency/alert; driver_id and rider_id are optional
emergencyAlert ==
  \E key \in HttpKeys, trip_id \in TripIds \cup {Undefined}, alert_type \in {"sos", Undefined},
     triggered_by \in {"rider", Undefined}, driver_id \in {"d1", Undefined},
     rider_id \in {"r1", Undefined} :
    LET body == Req(trip_id, driver_id, rider_id, NoArray, alert_type, triggered_by) IN
    /\ Shape(key, <<trip_id, alert_type, triggered_by>>, NoArray)
    /\ Optional(key, <<trip_id, alert_type, triggered_by>>, <<driver_id, rider_id>>)
    /\ Ingest("emergencyAlert", key, body,
           Falsy(trip_id) \/ Falsy(alert_type) \/ Falsy(triggered_by),
           broadcastEmergencyAlert(rooms, body))

(***************************************************************************)
(* app.js, the stand-alone entry point.                                    *)
(***************************************************************************)
DefaultJwtSecret == "7Z*hVKw<K=Y2}(S{n03YBU3lE?^|b!"
DefaultApiKey == "HKeGw>L/v9-3W4/"

\* The ids clients of app.js name in authenticate and join_user_room.
LegacyUserIds == {"r1"}

\* io.on('connection'): every transport connection is accepted; the
\* handshake credential is never looked at.
LegacyConnect(s) ==
  /\ NextHandle(s)
  /\ \E hs \in Handshakes :
       tokenId' = [tokenId EXCEPT ![s] = TokenIdentity(validateSocketAuth(hs, OrElse(jwtSecret, DefaultJwtSecret)))]
  /\ sockStatus' = [sockStatus EXCEPT ![s] = "connected"]
  /\ out' = SockEmit(NoOut, s, Msg("connected", Undefined, Undefined, Undefined, Undefined))
  /\ Remember
  /\ last' = SockOp("connect", s, NoReq)
  /\ UNCHANGED <<env, userId, userType, rooms>>

\* socket.on('authenticate', {token, userId}); socket.authenticated is
\* written and never read, so it is not part of the state.
authenticate(s) ==
  /\ Connected(s)
  /\ \E token \in {Undefined, "jwt.forged"}, uid \in LegacyUserIds :
       /\ userId' = [userId EXCEPT ![s] = IF Falsy(token) THEN @ ELSE uid]
       /\ Reply(s, "authenticate", Req(Undefined, Undefined, uid, NoArray, token, Undefined),
                Msg("authenticated", Undefined, Undefined,
                    IF Falsy(token) THEN Undefined ELSE uid, Undefined))
  /\ UNCHANGED <<env, sockStatus, tokenId, userType, rooms>>

\* socket.on('join_user_room', userId)
join_user_room(s) ==
  /\ Connected(s)
  /\ \E uid \in LegacyUserIds :
       /\ rooms' = [rooms EXCEPT ![s] = JoinRoom(@, UserRoom(uid))]
       /\ userId' = [userId EXCEPT ![s] = uid]
       /\ Reply(s, "join_user_room", Req(Undefined, Undefined, uid, NoArray, Undefined, Undefined),
                Msg("joined_room", Undefined, Undefined, Undefined, UserRoom(uid)))
  /\ UNCHANGED <<env, sockStatus, tokenId, userType>>

\* socket.on('join_trip_room', tripId)
join_trip_room(s) ==
  /\ Connected(s)
  /\ \E tripId \in TripIds :
       /\ rooms' = [rooms EXCEPT ![s] = JoinRoom(@, TripRoom(tripId))]
       /\ Reply(s, "join_trip_room", Req(tripId, Undefined, Undefined, NoArray, Undefined, Undefined),
                Msg("joined_room", Undefined, Undefined, Undefined, TripRoom(tripId)))
  /\ UNCHANGED <<env, sockStatus, tokenId, userId, userType>>

\* validateApiKey: the status it answers with, or 0 when it calls next()
validateApiKey(apiKey, expectedApiKey) ==
  IF Falsy(apiKey) \/ apiKey # expectedApiKey THEN 401 ELSE 0

\* POST /api/trip/accept
legacyTripAccept ==
  /\ \E key \in HttpKeys \cup {DefaultApiKey}, tripId \in TripIds \cup {Undefined},
        driverId \in {"d1", Undefined}, riderId \in {"r1", Undefined} :
       /\ Shape(IF key = DefaultApiKey THEN "key" ELSE key, <<tripId, driverId, riderId>>, NoArray)
       /\ LET auth == validateApiKey(key, OrElse(laravelApiKey, DefaultApiKey))
              toRider == RoomEmit(NoOut, rooms, UserRoom(riderId),
                                  Msg("trip_accepted", tripId, driverId, Undefined, Undefined))
          IN
           /\ out' = IF auth # 0 THEN NoOut
                     ELSE RoomEmit(toRider, rooms, UserRoom(driverId),
                                   Msg("trip_accepted_confirmation", tripId, Undefined, riderId, Undefined))
           /\ Remember
           /\ last' = Op("legacyTripAccept", 0, key, IF auth # 0 THEN auth ELSE 200,
                         Req(tripId, driverId, riderId, NoArray, Undefined, Undefined))
  /\ UNCHANGED <<env, sockStatus, tokenId, userId, userType, rooms>>

\* One request through app.post(path, validateApiKey, handler).  The
\* handlers validate nothing and catch nothing: an exception thrown while
\* handling goes to the error middleware, which answers 500.
LegacyIngest(name, key, body, throws, emits) ==
  LET auth == validateApiKey(key, OrElse(laravelApiKey, DefaultApiKey))
      status == IF auth # 0 THEN auth ELSE IF throws THEN 500 ELSE 200
  IN  /\ out' = IF status = 200 THEN emits ELSE NoOut
      /\ Remember
      /\ last' = Op(name, 0, key, status, body)
      /\ UNCHANGED <<env, sockStatus, tokenId, userId, userType, rooms>>

\* The requests sent to the driverIds routes of app.js: with a key the server
\* may accept, every list beside a tripId and the empty body; with a missing
\* or wrong key, one complete body and the empty one.
LegacyShape(key, tripId, driverIds) ==
  IF Falsy(tripId) THEN driverIds = NoArray
  ELSE IF key \in {"key", DefaultApiKey}
    THEN driverIds.present => Len(driverIds.items) <= 1
    ELSE driverIds = Arr(<<"r1">>)

\* POST /api/trip/send-to-drivers: driverIds.forEach(...) throws a TypeError
\* when the body has no driverIds
legacySendToDrivers ==
  \E key \in HttpKeys \cup {DefaultApiKey}, tripId \in TripIds \cup {Undefined},
     riderId \in {"r1", Undefined}, driverIds \in DriverLists :
    /\ LegacyShape(key, tripId, driverIds)
    /\ Falsy(riderId) <=> Falsy(tripId)
    /\ LegacyIngest("legacySendToDrivers", key,
           Req(tripId, Undefined, riderId, driverIds, Undefined, Undefined),
           ~driverIds.present,
           EmitAll(NoOut, rooms, UserRooms(driverIds.items),
                   Msg("trip_request", tripId, Undefined, riderId, Undefined)))

\* POST /api/trip/no-longer-available: the same forEach over driverIds
legacyNoLongerAvailable ==
  \E key \in HttpKeys \cup {DefaultApiKey}, tripId \in TripIds \cup {Undefined},
     reason \in {"expired"}, driverIds \in DriverLists :
    /\ LegacyShape(key, tripId, driverIds)
    /\ LegacyIngest("legacyNoLongerAvailable", key,
           Req(tripId, Undefined, Undefined, driverIds, reason, Undefined),
           ~driverIds.present,
           EmitAll(NoOut, rooms, UserRooms(driverIds.items),
                   Msg("trip_unavailable", tripId, Undefined, Undefined, reason)))

Next ==
  \/ \E s \in Sockets : Connect(s)
  \/ \E s \in Sockets : handleTripSubscription(s)
  \/ \E s \in Sockets : handleTripUnsubscription(s)
  \/ \E s \in Sockets : handleDriverAvailability(s)
  \/ \E s \in Sockets : handleDriverTracking(s)
  \/ \E s \in Sockets : handleTripAcceptance(s)
  \/ \E s \in Sockets : handleTripRejection(s)
  \/ \E s \in Sockets : Ping(s)
  \/ \E s \in Sockets : handleDisconnection(s)
  \/ sendTripToDrivers
  \/ tripAccepted
  \/ tripStarted
  \/ updateDriverLocation
  \/ legacyUpdateDriverLocation

\* The modular server: its socket commands, and the routes whose events
\* those commands subscribe to or originate.
Spec == Init /\ [][Next]_vars

\* The modular server's ingestion surface: all ten routes of server.js, over
\* the personal, trip and pool memberships that connecting, subscribe_trip and
\* toggle_availability build.
NextIngest ==
  \/ \E s \in Sockets : Connect(s)
  \/ \E s \in Sockets : handleTripSubscription(s)
  \/ \E s \in Sockets : handleDriverAvailability(s)
  \/ sendTripToDrivers
  \/ tripAccepted
  \/ tripNoLongerAvailable
  \/ driverArrived
  \/ tripStarted
  \/ tripCompleted
  \/ tripCancelled
  \/ updateDriverLocation
  \/ paymentUpdate
  \/ emergencyAlert

SpecIngest == Init /\ [][NextIngest]_vars

\* The modular server with the previous step remembered: the commands that
\* change membership, against the routes whose events reach the personal, trip
\* and tracking rooms.
InitHistory ==
  /\ \E e \in Deployments : jwtSecret = e.JWT_SECRET /\ laravelApiKey = e.LARAVEL_API_KEY
  /\ sockStatus = [s \in Sockets |-> "new"]
  /\ tokenId = [s \in Sockets |-> NoVerifiedToken]
  /\ userId = [s \in Sockets |-> Undefined]
  /\ userType = [s \in Sockets |-> Undefined]
  /\ rooms = [s \in Sockets |-> {}]
  /\ last = SockOp("init", 0, NoReq)
  /\ out = NoOut
  /\ prev = [on |-> TRUE, last |-> SockOp("init", 0, NoReq),
             rooms |-> [s \in Sockets |-> {}], out |-> NoOut]

\* The connections whose history is followed.
HistorySockets == {1}

NextHistory ==
  \/ \E s \in HistorySockets : Connect(s)
  \/ \E s \in HistorySockets : handleTripSubscription(s)
  \/ \E s \in HistorySockets : handleTripUnsubscription(s)
  \/ \E s \in HistorySockets : handleDriverAvailability(s)
  \/ \E s \in HistorySockets : handleDisconnection(s)
  \/ tripAccepted
  \/ tripStarted
  \/ updateDriverLocation

SpecHistory == InitHistory /\ [][NextHistory]_vars

NextLegacy ==
  \/ \E s \in Sockets : LegacyConnect(s)
  \/ \E s \in Sockets : authenticate(s)
  \/ \E s \in Sockets : join_user_room(s)
  \/ \E s \in Sockets : join_trip_room(s)
  \/ \E s \in Sockets : Ping(s)
  \/ \E s \in Sockets : handleDisconnection(s)
  \/ legacyTripAccept
  \/ legacySendToDrivers
  \/ legacyNoLongerAvailable

\* app.js.
SpecLegacy == Init /\ [][NextLegacy]_vars

(***************************************************************************)
(* Properties.                                                             *)
(***************************************************************************)
Msgs(q) == {q[i] : i \in DOMAIN q}
Count(q, m) == Cardinality({i \in DOMAIN q : q[i] = m})
Received(s, ev) == \E m \in Msgs(out[s]) : m.ev = ev

\* The latest step was socket s sending command name.
Sent(s, name) == last.op = name /\ last.sock = s
\* The latest step was an ingestion request to handler name answered 200.
Routed(name) == last.op = name /\ last.status = 200

\* C1: a connection whose role is not driver is never in available_drivers,
\* and a toggle_availability it sends is answered with the error and changes
\* no membership, whoever is in the pool at that moment.
C1_RiderNeverInPool ==
  [][\A s \in Sockets :
       /\ (Connected(s)' /\ userType'[s] # "driver") => PoolRoom \notin rooms'[s]
       /\ (Sent(s, "toggle_availability")' /\ userType[s] # "driver")
            => /\ rooms' = rooms
               /\ out'[s] = <<ErrorMsg("Only drivers can toggle availability")>>]_vars

C1_Witness ==
  \E s, d \in Sockets :
    /\ Sent(s, "toggle_availability") /\ last.req.x1 = "true"
    /\ userType[s] = "rider" /\ Received(s, "error")
    /\ PoolRoom \in rooms[d]

\* C2: a driver connection is in available_drivers only from its own
\* toggle_availability(true) on: no other step, the bind included, puts it
\* in the pool.
C2_PoolOnlyByToggle ==
  [][\A s \in Sockets :
       (Connected(s)' /\ userType'[s] = "driver" /\ PoolRoom \in rooms'[s])
         => \/ PoolRoom \in rooms[s]
            \/ Sent(s, "toggle_availability")' /\ last'.req.x1 = "true"]_vars

\* C3: a connection attempt whose token is missing or does not verify
\* creates no connection: it is never connected, is in no room and is sent
\* nothing but the handshake error.
C3_NoBindWithoutToken ==
  \A s \in Sockets :
    (sockStatus[s] # "new" /\ tokenId[s] = NoVerifiedToken)
      => /\ ~Connected(s)
         /\ rooms[s] = {}
         /\ \A m \in Msgs(out[s]) : m.ev = "connect_error"

\* C4: a connection is in user_<x> only if x is the id claim of the token
\* its handshake verified.
C4_PersonalOnlyOwn ==
  \A s \in Sockets : \A x \in UserIds :
    UserRoom(x) \in rooms[s] => tokenId[s] = x

\* C5: while a connection is bound it is in its own user_<userId> room.
C5_AlwaysInPersonal ==
  \A s \in Sockets : Connected(s) => UserRoom(userId[s]) \in rooms[s]

C5_Witness ==
  \E s \in Sockets :
    /\ Sent(s, "unsubscribe_trip") /\ last.req.trip_id = "T"
    /\ TrackRoom("d1") \in rooms[s]
    /\ UserRoom(userId[s]) \in rooms[s]

\* C6: a disconnected connection is in no room, and no step after the
\* disconnect delivers anything to it.
C6_ClosedGetsNothing ==
  \A s \in Sockets : sockStatus[s] = "closed" => rooms[s] = {} /\ out[s] = <<>>

C6_Witness ==
  \E s, t \in Sockets :
    /\ sockStatus[s] = "closed" /\ userId[s] = "r1"
    /\ Routed("tripAccepted") /\ last.req.rider_id = "r1"
    /\ Received(t, "trip_accepted")

\* C7: POST /api/trip/accepted with trip T, driver D, rider R delivers
\* trip_accepted to exactly the sockets in user_R or trip_T, and nothing else
\* to anyone.
C7_AcceptedDeliverySet ==
  Routed("tripAccepted") =>
    LET m == Msg("trip_accepted", last.req.trip_id, last.req.driver_id, last.req.rider_id, Undefined)
    IN  \A s \in Sockets :
          /\ Msgs(out[s]) \subseteq {m}
          /\ m \in Msgs(out[s]) <=>
               (UserRoom(last.req.rider_id) \in rooms[s] \/ TripRoom(last.req.trip_id) \in rooms[s])

C7_Witness ==
  /\ Routed("tripAccepted")
  /\ \E s, t \in Sockets :
       /\ Received(s, "trip_accepted") /\ UserRoom(last.req.rider_id) \notin rooms[s]
       /\ Connected(t) /\ out[t] = <<>>

\* C8: one route call hands each connection the event's message at most once.
C8_AtMostOnce ==
  (last.status = 200 \/ last.op = "accept_trip") =>
    \A s \in Sockets : \A m \in Msgs(out[s]) : Count(out[s], m) <= 1

\* C9: when driver d1 accepts trip T over its socket, every connection of
\* rider r1 receives exactly one trip_accepted, carrying driver id d1.
C9_RiderToldOfAcceptance ==
  \A d, r \in Sockets :
    (/\ Sent(d, "accept_trip") /\ last.req.trip_id = "T"
     /\ IsDriver(d) /\ userId[d] = "d1"
     /\ Connected(r) /\ userId[r] = "r1")
      => /\ Count(out[r], Msg("trip_accepted", "T", "d1", Undefined, Undefined)) = 1
         /\ \A m \in Msgs(out[r]) : m.ev = "trip_accepted" => m.driver_id = "d1"

\* The offer of C10: rider r1, candidates [d1], accepted by the server.
OfferToD1ForR1 ==
  /\ Routed("sendTripToDrivers")
  /\ last.req.rider_id = "r1"
  /\ last.req.drivers = Arr(<<"d1">>)

\* C10 as stated: the offer delivers nothing at all to a connection of r1.
C10_RiderGetsNothing ==
  OfferToD1ForR1 =>
    \A s \in Sockets : (Connected(s) /\ userId[s] = "r1") => out[s] = <<>>

\* C10 amended: new_trip_request goes only to members of user_d1 and of
\* available_drivers; a rider connection of r1 gets no new_trip_request and
\* exactly one message, the trip_sent_to_drivers notice sent to user_r1.
C10_RiderGetsOnlyNotice ==
  OfferToD1ForR1 =>
    \A s \in Sockets :
      /\ Received(s, "new_trip_request")
           => (UserRoom("d1") \in rooms[s] \/ PoolRoom \in rooms[s])
      /\ (Connected(s) /\ userId[s] = "r1" /\ userType[s] = "rider")
           => out[s] = <<Msg("trip_sent_to_drivers", last.req.trip_id, Undefined, "r1", Undefined)>>

C10_Witness ==
  /\ OfferToD1ForR1
  /\ \E s, t \in Sockets :
       /\ Connected(s) /\ userId[s] = "r1" /\ Received(s, "trip_sent_to_drivers")
       /\ Received(t, "new_trip_request")

\* The latest step was an offer-to-pool request answered 200, by either server.
OfferRouted == Routed("sendTripToDrivers") \/ Routed("legacySendToDrivers")

\* The candidates an offer or a no-longer-available request lists.
Listed(req) == {req.drivers.items[i] : i \in DOMAIN req.drivers.items}

\* C11: an offer-to-pool is delivered as new_trip_request to every connection
\* that is, when it is routed, in user_<c> for a listed candidate c or in
\* available_drivers.
C11_OfferReachesCandidatesAndPool ==
  OfferRouted =>
    \A s \in Sockets :
      (PoolRoom \in rooms[s] \/ \E c \in Listed(last.req) : UserRoom(c) \in rooms[s])
        => Received(s, "new_trip_request")

\* C11 on the modular server alone, where it holds: the pool driver that is
\* not listed and the listed driver that has left the pool both get the offer.
C11_ModularOffer ==
  Routed("sendTripToDrivers") => C11_OfferReachesCandidatesAndPool

C11_ModularWitness ==
  /\ Routed("sendTripToDrivers")
  /\ \E s, t \in Sockets :
       /\ userId[s] = "d1" /\ PoolRoom \notin rooms[s] /\ "d1" \in Listed(last.req)
       /\ Received(s, "new_trip_request")
       /\ userId[t] = "d1" /\ PoolRoom \in rooms[t] /\ Received(t, "new_trip_request")

\* The request of the latest step passed validateBackendAuth.
KeyAccepted == ~Falsy(last.key) /\ ~Falsy(laravelApiKey) /\ last.key = laravelApiKey

\* C12: trip_no_longer_available goes to exactly the members of user_<id> for
\* the remaining drivers listed and of available_drivers; a request with a
\* valid key, trip_id and reason but no remaining_drivers is answered 200 and
\* still reaches the pool.
C12_UnavailableTargets ==
  /\ Routed("tripNoLongerAvailable") =>
       \A s \in Sockets :
         /\ \A m \in Msgs(out[s]) :
              m = Msg("trip_no_longer_available", last.req.trip_id, Undefined, Undefined, last.req.x1)
         /\ Received(s, "trip_no_longer_available") <=>
              (PoolRoom \in rooms[s] \/ \E c \in Listed(last.req) : UserRoom(c) \in rooms[s])
  /\ (/\ last.op = "tripNoLongerAvailable" /\ KeyAccepted
      /\ ~Falsy(last.req.trip_id) /\ ~Falsy(last.req.x1))
       => last.status = 200

C12_Witness ==
  /\ Routed("tripNoLongerAvailable") /\ ~last.req.drivers.present
  /\ \E s, t \in Sockets :
       /\ PoolRoom \in rooms[s] /\ Received(s, "trip_no_longer_available")
       /\ Connected(t) /\ userType[t] = "driver" /\ PoolRoom \notin rooms[t] /\ out[t] = <<>>

\* The message an emergency alert request is relayed as.
AlertMsg == Msg("emergency_alert", last.req.trip_id, last.req.driver_id, last.req.rider_id, last.req.x1)

LocationRouted == Routed("updateDriverLocation") \/ Routed("legacyUpdateDriverLocation")

\* The trip id a location update request carries: trip_id on
\* /api/driver/location-update, current_trip_id on /api/driver/location.
LocationTrip == OrElse(last.req.trip_id, last.req.x2)

\* C14: a location update for driver D is delivered to exactly the members of
\* track_driver_<D> and, when the request carries a trip id T, of trip_<T>.
C14_LocationTargets ==
  LocationRouted =>
    \A s \in Sockets :
      Received(s, "driver_location_update") <=>
        (\/ TrackRoom(last.req.driver_id) \in rooms[s]
         \/ ~Falsy(LocationTrip) /\ TripRoom(LocationTrip) \in rooms[s])

\* C14 on /api/driver/location-update alone, where the rule holds.
C14_LocationUpdateRoute ==
  Routed("updateDriverLocation") => C14_LocationTargets

C14_LocationUpdateWitness ==
  /\ Routed("updateDriverLocation") /\ Falsy(last.req.trip_id)
  /\ \E s, t \in Sockets :
       /\ TrackRoom(last.req.driver_id) \in rooms[s] /\ Received(s, "driver_location_update")
       /\ TripRoom("T") \in rooms[t] /\ out[t] = <<>>

\* The event name each ingestion route relays its request under.
EventOf(op) ==
  CASE op = "sendTripToDrivers"     -> "new_trip_request"
    [] op = "tripAccepted"          -> "trip_accepted"
    [] op = "tripNoLongerAvailable" -> "trip_no_longer_available"
    [] op = "driverArrived"         -> "driver_arrived"
    [] op = "tripStarted"           -> "trip_started"
    [] op = "tripCompleted"         -> "trip_completed"
    [] op = "tripCancelled"         -> "trip_cancelled"
    [] op = "updateDriverLocation"  -> "driver_location_update"
    [] op = "paymentUpdate"         -> "payment_update"
    [] op = "emergencyAlert"        -> "emergency_alert"
    [] OTHER                        -> Undefined

\* The latest step was a request carrying a trip id that a route relayed.
TripEventRouted == last.status = 200 /\ ~Falsy(last.req.trip_id)

\* C15 as stated: whatever the kind, a routed event that carries a trip id
\* delivers something to every member of trip_<trip_id>.
C15_ContextAlwaysTargeted ==
  TripEventRouted =>
    \A s \in Sockets :
      TripRoom(last.req.trip_id) \in rooms[s] => out[s] # <<>>

\* The kinds that are emitted to the trip room whenever they are routed.
ContextKinds ==
  {"tripAccepted", "driverArrived", "tripStarted", "tripCompleted", "tripCancelled",
   "paymentUpdate", "emergencyAlert"}

\* C15 amended: accepted, arrived, started, completed, cancelled,
\* payment-update and emergency-alert events reach every member of
\* trip_<trip_id>; an offer or a no-longer-available event is not emitted to
\* the trip room, so it reaches a trip subscriber only through a listed
\* personal room or the pool.
C15_ContextTargetedByKind ==
  TripEventRouted =>
    \A s \in Sockets :
      TripRoom(last.req.trip_id) \in rooms[s] =>
        /\ last.op \in ContextKinds => Received(s, EventOf(last.op))
        /\ (last.op \in {"sendTripToDrivers", "tripNoLongerAvailable"} /\ Received(s, EventOf(last.op)))
             => (PoolRoom \in rooms[s] \/ \E c \in Listed(last.req) : UserRoom(c) \in rooms[s])

C15_Witness ==
  /\ Routed("tripCompleted")
  /\ \E s \in Sockets :
       /\ TripRoom(last.req.trip_id) \in rooms[s]
       /\ userId[s] \notin {last.req.rider_id, last.req.driver_id}
       /\ Received(s, "trip_completed")

\* The lifecycle kinds of C16, and those of them whose broadcast names the
\* driver's personal room.
PartyKinds ==
  {"tripAccepted", "driverArrived", "tripStarted", "tripCompleted", "tripCancelled", "paymentUpdate"}
BothPartyKinds == {"tripStarted", "tripCompleted", "tripCancelled", "paymentUpdate"}

\* The latest step relayed a lifecycle event naming a driver and a rider.
PartyEventRouted ==
  /\ last.op \in PartyKinds /\ last.status = 200
  /\ ~Falsy(last.req.driver_id) /\ ~Falsy(last.req.rider_id)

\* C16 as stated: the event reaches every member of user_<driver_id> and of
\* user_<rider_id>.
C16_BothPartiesTargeted ==
  PartyEventRouted =>
    \A s \in Sockets :
      (UserRoom(last.req.driver_id) \in rooms[s] \/ UserRoom(last.req.rider_id) \in rooms[s])
        => Received(s, EventOf(last.op))

\* C16 amended: every such event reaches the members of user_<rider_id>;
\* started, completed, cancelled and payment-update also reach the members of
\* user_<driver_id>; accepted and arrived are not emitted to the driver's room,
\* so a driver connection gets them only as a member of the trip room (or of
\* the rider's room).
C16_PartiesTargetedByKind ==
  PartyEventRouted =>
    \A s \in Sockets :
      /\ UserRoom(last.req.rider_id) \in rooms[s] => Received(s, EventOf(last.op))
      /\ UserRoom(last.req.driver_id) \in rooms[s] =>
           IF last.op \in BothPartyKinds
             THEN Received(s, EventOf(last.op))
             ELSE Received(s, EventOf(last.op)) <=>
                    (\/ TripRoom(last.req.trip_id) \in rooms[s]
                     \/ UserRoom(last.req.rider_id) \in rooms[s])

C16_Witness ==
  /\ Routed("driverArrived")
  /\ \E s, t \in Sockets :
       /\ userId[s] = last.req.driver_id /\ Connected(s) /\ out[s] = <<>>
       /\ userId[t] = last.req.rider_id /\ TripRoom(last.req.trip_id) \notin rooms[t]
       /\ Received(t, "driver_arrived")

\* The latest step was an HTTP ingestion request.
HttpStep == last.status # 0

\* C17: the key is checked before the body.  A request whose X-API-Key is
\* missing, or differs from the configured key, is answered 401 whatever its
\* body holds; and no request whose key was not accepted is answered 400 or
\* 200 or emits anything.
C17_KeyBeforeFields ==
  (HttpStep /\ ~KeyAccepted) =>
    /\ out = NoOut
    /\ last.status \notin {200, 400}
    /\ (Falsy(last.key) \/ ~Falsy(laravelApiKey)) => last.status = 401

C17_Witness ==
  /\ last.op = "emergencyAlert" /\ last.key = "wrong" /\ last.status = 401
  /\ Falsy(last.req.trip_id) /\ Falsy(last.req.x1) /\ Falsy(last.req.x2)
  /\ \E s \in Sockets : Connected(s) /\ TripRoom("T") \in rooms[s]

\* C18: on a server with no LARAVEL_API_KEY configured every ingestion
\* request is answered 500, whatever key it presents or omits.
C18_UnconfiguredIs500 ==
  (HttpStep /\ Falsy(laravelApiKey)) => last.status = 500

\* The routes of app.js.
LegacyOps == {"legacyTripAccept", "legacySendToDrivers", "legacyNoLongerAvailable"}

\* The key the server handling the latest request compares against, and
\* whether the request presented it.
ExpectedKey ==
  IF last.op \in LegacyOps THEN OrElse(laravelApiKey, DefaultApiKey) ELSE laravelApiKey
Authenticated == ~Falsy(last.key) /\ last.key = ExpectedKey

\* A field the request's kind requires is missing from its body.
RequiredMissing ==
  LET q == last.req IN
  CASE last.op = "sendTripToDrivers" ->
         Falsy(q.trip_id) \/ Falsy(q.rider_id) \/ Falsy(q.x1) \/ ~q.drivers.present
    [] last.op = "legacySendToDrivers" -> Falsy(q.trip_id) \/ ~q.drivers.present
    [] last.op \in {"tripNoLongerAvailable", "legacyNoLongerAvailable"} ->
         Falsy(q.trip_id) \/ Falsy(q.x1)
    [] last.op \in {"tripAccepted", "driverArrived", "tripStarted", "tripCompleted", "legacyTripAccept"} ->
         Falsy(q.trip_id) \/ Falsy(q.driver_id) \/ Falsy(q.rider_id)
    [] last.op \in {"tripCancelled", "paymentUpdate"} -> Falsy(q.trip_id) \/ Falsy(q.x1)
    [] last.op \in {"updateDriverLocation", "legacyUpdateDriverLocation"} ->
         Falsy(q.driver_id) \/ Falsy(q.x1)
    [] last.op = "emergencyAlert" -> Falsy(q.trip_id) \/ Falsy(q.x1) \/ Falsy(q.x2)
    [] OTHER -> FALSE

\* C19: a request that presents the right key is never answered 500, and is
\* answered 400 when a required field is missing; a missing candidate list
\* makes no difference to that.
C19_MissingFieldIs400 ==
  (HttpStep /\ Authenticated) =>
    /\ last.status # 500
    /\ RequiredMissing => last.status = 400

\* C20: accept_trip or reject_trip from a connection whose role is not
\* driver changes no membership, answers the sender with one error message
\* and delivers nothing to anyone else.
C20_NonDriverAcceptRejected ==
  [][\A s \in Sockets :
       ((Sent(s, "accept_trip")' \/ Sent(s, "reject_trip")') /\ userType[s] # "driver")
         => /\ rooms' = rooms
            /\ out'[s] = <<ErrorMsg(IF last'.op = "accept_trip"
                                      THEN "Only drivers can accept trips"
                                      ELSE "Only drivers can reject trips")>>
            /\ \A t \in Sockets \ {s} : out'[t] = <<>>]_vars

C20_Witness ==
  \E s, t \in Sockets :
    /\ Sent(s, "accept_trip") /\ last.req.trip_id = "T" /\ userType[s] = "rider"
    /\ Received(s, "error")
    /\ s # t /\ TripRoom("T") \in rooms[t] /\ out[t] = <<>>

\* The latest two steps were socket s joining room c and then leaving it:
\* subscribe_trip then unsubscribe_trip of one trip, or toggle_availability
\* true then not true.  Read across a step, so that prev is the state before
\* the join and the primed state the one after the leave.
JoinThenLeave(s, c) ==
  \/ /\ c = TripRoom(last.req.trip_id) /\ ~Falsy(last.req.trip_id)
     /\ Sent(s, "subscribe_trip") /\ Sent(s, "unsubscribe_trip")'
     /\ last'.req.trip_id = last.req.trip_id
  \/ /\ c = PoolRoom
     /\ Sent(s, "toggle_availability") /\ last.req.x1 = "true"
     /\ Sent(s, "toggle_availability")' /\ last'.req.x1 # "true"

JoinableRooms == {TripRoom(t) : t \in TripIds} \cup {PoolRoom}

\* C21 as stated: a join followed by a leave of the same room leaves the
\* connection's membership as it was before the join, whether or not it was
\* already in the room.
C21_JoinLeaveRestores ==
  [][\A s \in Sockets : \A c \in JoinableRooms :
       JoinThenLeave(s, c) => rooms'[s] = prev.rooms[s]]_vars

\* C21 amended: the round trip restores the membership exactly when the
\* connection was not in the room before the join; if it was, the join changes
\* nothing and the leave takes it out of the room.
C21_JoinLeaveRemoves ==
  [][\A s \in Sockets : \A c \in JoinableRooms :
       JoinThenLeave(s, c) =>
         /\ rooms'[s] = prev.rooms[s] \ {c}
         /\ c \notin prev.rooms[s] => rooms'[s] = prev.rooms[s]
         /\ \A t \in Sockets \ {s} : rooms'[t] = prev.rooms[t]]_vars

C21_Witness ==
  \E s \in Sockets :
    /\ Sent(s, "unsubscribe_trip") /\ last.req.trip_id = "T"
    /\ prev.last = SockOp("subscribe_trip", s, last.req)
    /\ prev.rooms[s] = JoinRoom(rooms[s], TripRoom("T"))
    /\ PoolRoom \in rooms[s] /\ TripRoom("T") \notin rooms[s]

\* How many of the rooms in roomSeq socket s is in: the number of copies one
\* emit per room hands it.
Emits(rms, s, roomSeq) == Cardinality({i \in DOMAIN roomSeq : roomSeq[i] \in rms[s]})

\* C22: subscribe_trip for a trip already subscribed to and unsubscribe_trip
\* for a trip not subscribed to are both answered with the success reply and
\* change no membership; after a repeated subscribe a routed trip_accepted
\* still reaches the connection once per room emitted to.
C22_JoinLeaveIdempotent ==
  [][\A s \in Sockets :
       /\ (Sent(s, "subscribe_trip")' /\ TripRoom(last'.req.trip_id) \in rooms[s])
            => /\ rooms' = rooms
               /\ out'[s] = <<Msg("trip_subscribed", last'.req.trip_id, Undefined, Undefined, Undefined)>>
       /\ (Sent(s, "unsubscribe_trip")' /\ ~Falsy(last'.req.trip_id)
             /\ TripRoom(last'.req.trip_id) \notin rooms[s])
            => /\ rooms' = rooms
               /\ out'[s] = <<Msg("trip_unsubscribed", last'.req.trip_id, Undefined, Undefined, Undefined)>>
       /\ (/\ Sent(s, "subscribe_trip") /\ TripRoom(last.req.trip_id) \in prev.rooms[s]
           /\ Routed("tripAccepted")' /\ last'.req.trip_id = last.req.trip_id)
            => Count(out'[s], Msg("trip_accepted", last'.req.trip_id, last'.req.driver_id,
                                  last'.req.rider_id, Undefined))
                 = Emits(rooms', s, <<UserRoom(last'.req.rider_id), TripRoom(last'.req.trip_id)>>)]_vars

C22_Witness ==
  \E s \in Sockets :
    /\ Sent(s, "subscribe_trip") /\ last.req.trip_id = "T"
    /\ TripRoom("T") \in prev.rooms[s] /\ rooms = prev.rooms
    /\ Received(s, "trip_subscribed")

\* Two ingestion requests handled one after the other were both routed and
\* carry the same trip id, so both target trip_<id>.
BackToBack ==
  /\ prev.last.status = 200 /\ last.status = 200
  /\ ~Falsy(last.req.trip_id) /\ prev.last.req.trip_id = last.req.trip_id

\* What socket s was handed over the two latest steps, in order.
Stream(s) == prev.out[s] \o out[s]

RouteRooms ==
  CASE last.op = "tripAccepted"         -> Msgs(TripAcceptanceRooms(last.req))
    [] last.op = "tripStarted"          -> Msgs(TripStartRooms(last.req))
    [] last.op = "updateDriverLocation" -> Msgs(DriverLocationRooms(last.req))
    [] OTHER                            -> {}

RoutedEvents == {"trip_accepted", "trip_started", "driver_location_update"}

NoMembers(roomSeq) == \A s \in Sockets : Msgs(roomSeq) \cap rooms[s] = {}

\* C25: a request that presents the configured key and all required fields
\* is answered 200 whoever is connected; a socket in no room is handed
\* nothing, and a trip-accepted request whose rider room and trip room are
\* both empty is answered 200 and hands nothing to anyone.
C25_NoRecipientsIsSuccess ==
  (HttpStep /\ last.op \notin LegacyOps /\ KeyAccepted /\ ~RequiredMissing) =>
    /\ last.status = 200
    /\ \A s \in Sockets : rooms[s] = {} => out[s] = <<>>
    /\ (last.op = "tripAccepted" /\ NoMembers(TripAcceptanceRooms(last.req))) => out = NoOut

C25_Witness ==
  /\ Routed("tripAccepted") /\ NoMembers(TripAcceptanceRooms(last.req))
  /\ \E s \in Sockets : Connected(s) /\ rooms[s] # {}
  /\ out = NoOut

\* C26: while a connection lives, no step changes the id or the role bound to
\* it; both are what the handshake token established.
C26_IdentityFixed ==
  [][\A s \in Sockets :
       (Connected(s) /\ Connected(s)') =>
         /\ userId'[s] = userId[s] /\ userType'[s] = userType[s]
         /\ userId'[s] = tokenId'[s]]_vars

\* C27: a socket whose token verified but carried neither user_id nor id is
\* never connected and is in no room.
C27_NoIdClaimRejected ==
  \A s \in Sockets :
    tokenId[s] = Undefined => (sockStatus[s] # "connected" /\ rooms[s] = {})

Reached(ev) == Cardinality({s \in Sockets : Received(s, ev)})

\* C29: the drivers_notified value answered by the offer route and by the
\* no-longer-available route equals the number of connections the event was
\* handed to.
C29_NotifiedIsDelivered ==
  /\ Routed("sendTripToDrivers") =>
       NearbyDriversNotified(last.req) = Reached("new_trip_request")
  /\ Routed("tripNoLongerAvailable") =>
       RemainingDriversNotified(last.req) = Reached("trip_no_longer_available")

ConnectedMsg == Msg("connected", Undefined, Undefined, Undefined, Undefined)

\* C30: the step that binds a connection hands it one 'connected' and nothing
\* else, hands nobody else anything, and leaves it in user_<id>; no other step
\* hands out 'connected'; and a request handled at any time after the bind,
\* while the connection lives, whose route emits to user_<id> is delivered to
\* the connection.
C30_ConnectedOnceAfterJoin ==
  [][\A s \in Sockets :
       /\ Sent(s, "connect")' =>
            /\ out' = SockEmit(NoOut, s, ConnectedMsg)
            /\ UserRoom(userId'[s]) \in rooms'[s]
       /\ Count(out'[s], ConnectedMsg) > 0 => Sent(s, "connect")'
       /\ (/\ Connected(s)
           /\ last'.status = 200 /\ UserRoom(userId[s]) \in RouteRooms')
            => \E m \in Msgs(out'[s]) : m.ev = EventOf(last'.op)]_vars

C30_Witness ==
  \E s \in Sockets :
    /\ prev.last = SockOp("connect", s, NoReq)
    /\ prev.out[s] = <<ConnectedMsg>> /\ UserRoom("r1") \in prev.rooms[s]
    /\ Routed("tripAccepted") /\ last.req.rider_id = "r1" /\ userId[s] = "r1"
    /\ Received(s, "trip_accepted")

\* C31: whatever the accept_trip payload names as driver, every
\* trip_accepted and trip_acceptance_confirmed message the command produces
\* carries the id the sending socket got from its verified token.
C31_AcceptanceCarriesBoundId ==
  \A s \in Sockets :
    Sent(s, "accept_trip") =>
      \A t \in Sockets : \A m \in Msgs(out[t]) :
        m.ev \in {"trip_accepted", "trip_acceptance_confirmed"} =>
          m.driver_id = userId[s] /\ m.driver_id = tokenId[s]

C31_Witness ==
  \E s, t \in Sockets :
    /\ s # t /\ Sent(s, "accept_trip") /\ last.req.driver_id = "r1" /\ userId[s] = "d1"
    /\ \E m \in Msgs(out[t]) : m.ev = "trip_accepted" /\ m.driver_id = "d1"

\* Positions in the latest request's steps where the handler did what.
StepsDoing(what) == {i \in DOMAIN last.steps : last.steps[i].do = what}

\* C32: a request to the modular server that is not answered 200 emits
\* nothing and its handler never reaches the broadcast; every request is
\* answered exactly once; and the broadcast of a request answered 200 comes
\* before the answer.
C32_RejectedEmitsNothing ==
  (HttpStep /\ last.op \notin LegacyOps) =>
    /\ last.status # 200 => (out = NoOut /\ StepsDoing("broadcast") = {})
    /\ Cardinality(StepsDoing("respond")) = 1
    /\ last.status = 200 => StepsDoing("broadcast") # {}
    /\ \A i \in StepsDoing("broadcast") : \A j \in StepsDoing("respond") : i < j

C32_Witness ==
  /\ Routed("tripCancelled") /\ out # NoOut
  /\ last.steps = <<Broadcast, Respond(200)>>

\* C33: reject_trip for a trip, sent by a driver, hands the sender one
\* trip_rejection_confirmed carrying the trip and the sender's id, hands
\* nobody else anything, whatever rooms they are in, and changes no
\* membership.
C33_RejectionOnlyToSender ==
  [][\A s \in Sockets :
       (Sent(s, "reject_trip")' /\ userType[s] = "driver" /\ ~Falsy(last'.req.trip_id)) =>
         /\ rooms' = rooms
         /\ out' = SockEmit(NoOut, s, Msg("trip_rejection_confirmed", last'.req.trip_id,
                                          userId[s], Undefined, "No reason provided"))]_vars

C33_Witness ==
  \E s, t \in Sockets :
    /\ s # t /\ Sent(s, "reject_trip") /\ last.req.trip_id = "T" /\ userType[s] = "driver"
    /\ Received(s, "trip_rejection_confirmed")
    /\ TripRoom("T") \in rooms[t] /\ out[t] = <<>>

\* C34: the step that handles a backend request, or an accept_trip,
\* reject_trip or ping command, leaves every socket's rooms as they were.
C34_RoutingKeepsMembership ==
  [][(HttpStep' \/ last'.op \in {"accept_trip", "reject_trip", "ping"}) => rooms' = rooms]_vars

C34_Witness ==
  \E s, t \in Sockets :
    /\ s # t /\ Sent(s, "accept_trip") /\ last.req.trip_id = "T"
    /\ Received(t, "trip_accepted") /\ Received(s, "trip_acceptance_confirmed")
    /\ TripRoom("T") \notin rooms[s] /\ Len(out[s]) = 1

MembershipCommands == {"subscribe_trip", "unsubscribe_trip", "toggle_availability", "track_driver"}

\* C35: subscribe_trip, unsubscribe_trip, toggle_availability and
\* track_driver sent by one socket leave the rooms of every other socket as
\* they were, also of a socket bound to the same id.
C35_OnlySendersMembership ==
  [][\A s \in Sockets :
       (last'.sock = s /\ last'.op \in MembershipCommands) =>
         \A t \in Sockets \ {s} : rooms'[t] = rooms[t]]_vars

C35_Witness ==
  \E s, t \in Sockets :
    /\ s # t /\ Connected(s) /\ Connected(t) /\ userId[s] = userId[t]
    /\ Sent(s, "subscribe_trip") /\ last.req.trip_id = "T"
    /\ TripRoom("T") \in rooms[s] /\ TripRoom("T") \notin rooms[t]

\* Socket s is in none of the user rooms the latest request lists.
Unlisted(s) == \A i \in DOMAIN last.req.drivers.items : UserRoom(last.req.drivers.items[i]) \notin rooms[s]

\* C36: a toggle_availability from a driver leaves it in available_drivers
\* exactly if is_available was true, whatever went before; between toggles
\* only the socket's own connect and disconnect change its pool membership;
\* and a trip_no_longer_available that reaches a socket outside the pool got
\* there through a listed user room.
C36_LastToggleDecides ==
  [][\A s \in Sockets :
       /\ (Sent(s, "toggle_availability")' /\ userType[s] = "driver") =>
            (PoolRoom \in rooms'[s] <=> last'.req.x1 = "true")
       /\ ((PoolRoom \in rooms'[s]) # (PoolRoom \in rooms[s])) =>
            (last'.sock = s /\ last'.op \in {"toggle_availability", "connect", "disconnect"})
       /\ (Routed("tripNoLongerAvailable")' /\ PoolRoom \notin rooms[s] /\ Unlisted(s)') =>
            out'[s] = <<>>]_vars

C36_Witness ==
  \E s, t \in Sockets :
    /\ Routed("tripNoLongerAvailable") /\ ~last.req.drivers.present
    /\ Connected(s) /\ userType[s] = "driver" /\ PoolRoom \notin rooms[s] /\ out[s] = <<>>
    /\ PoolRoom \in rooms[t] /\ Received(t, "trip_no_longer_available")

\* The handshake carries a token that verifies and has no user_type claim.
NoRoleClaim(hs) ==
  LET v == JwtVerify(OrElse(hs.auth, StripBearer(hs.authorization)), jwtSecret)
  IN  ~v.err /\ v.decoded.user_type = Undefined

DriverCommands == {"accept_trip", "reject_trip", "toggle_availability"}

\* C37: a handshake whose token verifies and has no user_type is bound with
\* role rider (evaluated at every step that binds a socket).  The socket bound from the token without any claim is a rider
\* outside available_drivers, and an accept_trip, reject_trip or
\* toggle_availability it sends is answered with one error, reaches nobody
\* else and changes no membership.
C37_NoRoleIsRider ==
  [][/\ last'.op = "connect" =>
          \A hs \in Handshakes :
            NoRoleClaim(hs) =>
              (validateSocketAuth(hs, jwtSecret).ok /\ validateSocketAuth(hs, jwtSecret).userType = "rider")
     /\ \A s \in Sockets :
          (Connected(s)' /\ tokenId'[s] = Undefined) =>
            /\ userType'[s] = "rider" /\ PoolRoom \notin rooms'[s]
            /\ (last'.sock = s /\ last'.op \in DriverCommands) =>
                 /\ rooms' = rooms
                 /\ Len(out'[s]) = 1 /\ out'[s][1].ev = "error"
                 /\ \A t \in Sockets \ {s} : out'[t] = <<>>]_vars

C37_Witness ==
  \E s \in Sockets :
    /\ Connected(s) /\ tokenId[s] = Undefined /\ userType[s] = "rider"
    /\ Sent(s, "toggle_availability") /\ last.req.x1 = "true"
    /\ out[s] = <<ErrorMsg("Only drivers can toggle availability")>>
    /\ PoolRoom \notin rooms[s]

\* The latest command lacks the id its handler requires.
LacksId ==
  \/ last.op \in {"subscribe_trip", "unsubscribe_trip", "accept_trip"} /\ Falsy(last.req.trip_id)
  \/ last.op = "track_driver" /\ Falsy(last.req.driver_id)

\* C38: subscribe_trip, unsubscribe_trip or accept_trip without trip_id, and
\* track_driver without driver_id, hand the sender one error message with a
\* text, hand nobody else anything and change no membership.
C38_MissingIdIsError ==
  [][\A s \in Sockets :
       (last'.sock = s /\ LacksId') =>
         /\ rooms' = rooms
         /\ Len(out'[s]) = 1 /\ out'[s][1].ev = "error" /\ ~Falsy(out'[s][1].message)
         /\ \A t \in Sockets \ {s} : out'[t] = <<>>]_vars

C38_Witness ==
  \E s, t \in Sockets :
    /\ s # t /\ Connected(t)
    /\ Sent(s, "track_driver") /\ Falsy(last.req.driver_id)
    /\ out[s] = <<ErrorMsg("driver_id is required for tracking")>>
    /\ \A d \in UserIds \cup {Undefined} : TrackRoom(d) \notin rooms[s]

\* C39: a socket in track_driver_<D> stays in it for as long as it is
\* connected, whatever command anyone sends, and every location update for D
\* routed meanwhile is handed to it.
C39_TrackingLastsUntilDisconnect ==
  [][\A s \in Sockets :
       /\ \A d \in UserIds :
            (TrackRoom(d) \in rooms[s] /\ Connected(s)') => TrackRoom(d) \in rooms'[s]
       /\ (LocationRouted' /\ TrackRoom(last'.req.driver_id) \in rooms[s]) =>
            \E m \in Msgs(out'[s]) :
              m.ev = "driver_location_update" /\ m.driver_id = last'.req.driver_id]_vars

C39_Witness ==
  \E s \in Sockets :
    /\ LocationRouted /\ last.req.driver_id = "d1"
    /\ Connected(s) /\ userId[s] = "r1"
    /\ rooms[s] = {UserRoom("r1"), TrackRoom("d1")}
    /\ Len(out[s]) = 1 /\ out[s][1].ev = "driver_location_update"
====
